---------------------------- MODULE Spec2Model ----------------------------
(***************************************************************************)
(* Model of the silk-release policy compiler:                              *)
(*   - vxlan-policy-agent/planner/planner_linux.go  (policy resolution)    *)
(*   - cni-wrapper-plugin/legacynet/netout.go       (chain-tree building)  *)
(*                                                                         *)
(* Go strings are modelled as sequences of one-character strings so that   *)
(* parsing, splitting, trimming and byte-wise comparison are computed and  *)
(* not assumed.                                                            *)
(***************************************************************************)
EXTENDS Integers, Sequences, FiniteSets, TLC

(***************************************************************************)
(* Strings and the Go standard-library conversions the code calls          *)
(***************************************************************************)

\* The printable ASCII characters in code order, starting at code 32 (code 96,
\* which no modelled string holds, is spelled out).
AsciiTable ==
    << " ", "!", "\"", "#", "$", "%", "&", "'", "(", ")", "*", "+", ",", "-", ".", "/",
       "0", "1", "2", "3", "4", "5", "6", "7", "8", "9", ":", ";", "<", "=", ">", "?",
       "@", "A", "B", "C", "D", "E", "F", "G", "H", "I", "J", "K", "L", "M", "N", "O",
       "P", "Q", "R", "S", "T", "U", "V", "W", "X", "Y", "Z", "[", "\\", "]", "^", "_",
       "backquote", "a", "b", "c", "d", "e", "f", "g", "h", "i", "j", "k", "l", "m", "n", "o",
       "p", "q", "r", "s", "t", "u", "v", "w", "x", "y", "z", "{", "|", "}", "~" >>

\* The byte value of a character.
Ascii(c) == 31 + (CHOOSE i \in 1..Len(AsciiTable) : AsciiTable[i] = c)

Digits == <<"0", "1", "2", "3", "4", "5", "6", "7", "8", "9">>

IsDigit(c) == \E i \in 1..10 : Digits[i] = c

DigitVal(c) == (CHOOSE i \in 1..10 : Digits[i] = c) - 1

Min(a, b) == IF a < b THEN a ELSE b

Max(a, b) == IF a < b THEN b ELSE a

\* strings.Compare(a, b) < 0 : byte-wise lexicographic order.
StrLess(a, b) ==
    LET n == Min(Len(a), Len(b))
        d == {i \in 1..n : a[i] # b[i]}
    IN  IF d = {}
        THEN Len(a) < Len(b)
        ELSE LET i == CHOOSE k \in d : \A l \in d : k <= l
             IN  Ascii(a[i]) < Ascii(b[i])

\* strconv.Itoa / the %d verb, for a non-negative or negative integer.
RECURSIVE ItoaNat(_)
ItoaNat(n) == IF n < 10 THEN <<Digits[n + 1]>> ELSE ItoaNat(n \div 10) \o <<Digits[(n % 10) + 1]>>

Itoa(n) == IF n < 0 THEN <<"-">> \o ItoaNat(0 - n) ELSE ItoaNat(n)

\* The value of a non-empty sequence of decimal digits.
RECURSIVE DigitsVal(_)
DigitsVal(s) == IF s = <<>> THEN 0 ELSE 10 * DigitsVal(SubSeq(s, 1, Len(s) - 1)) + DigitVal(s[Len(s)])

\* strconv.Atoi: an optional sign followed by at least one decimal digit.
Atoi(s) ==
    LET signed == s # <<>> /\ s[1] \in {"+", "-"}
        body == IF signed THEN Tail(s) ELSE s
    IN  IF body = <<>> \/ \E i \in 1..Len(body) : ~IsDigit(body[i])
        THEN [ok |-> FALSE, val |-> 0]
        ELSE [ok |-> TRUE,
              val |-> IF signed /\ s[1] = "-" THEN 0 - DigitsVal(body) ELSE DigitsVal(body)]

IsSpace(c) == c \in {" ", "\t", "\n", "\r"}

\* strings.TrimSpace
TrimSpace(s) ==
    LET keep == {i \in 1..Len(s) : ~IsSpace(s[i])}
    IN  IF keep = {}
        THEN <<>>
        ELSE SubSeq(s, CHOOSE i \in keep : \A j \in keep : i <= j,
                       CHOOSE i \in keep : \A j \in keep : j <= i)

\* strings.Split(s, sep) for a one-character separator: always at least one piece.
RECURSIVE Split(_, _)
Split(s, sep) ==
    LET at == {i \in 1..Len(s) : s[i] = sep}
    IN  IF at = {}
        THEN <<s>>
        ELSE LET i == CHOOSE k \in at : \A l \in at : k <= l
             IN  <<SubSeq(s, 1, i - 1)>> \o Split(SubSeq(s, i + 1, Len(s)), sep)

\* Position of the first / last occurrence of c in s, 0 when absent.
IndexByte(s, c) ==
    LET at == {i \in 1..Len(s) : s[i] = c}
    IN  IF at = {} THEN 0 ELSE CHOOSE k \in at : \A l \in at : k <= l

LastIndexByte(s, c) ==
    LET at == {i \in 1..Len(s) : s[i] = c}
    IN  IF at = {} THEN 0 ELSE CHOOSE k \in at : \A l \in at : l <= k

(***************************************************************************)
(* planner_linux.go : the resolved tuples and their ordering               *)
(***************************************************************************)

\* encoding/json of a string value without characters that need escaping.
JStr(s) == <<"\"">> \o s \o <<"\"">>

\* "name": in a marshalled struct.
JKey(k) == JStr(k) \o <<":">>

\* json.Marshal of a struct: its fields in declaration order.
RECURSIVE JFields(_)
JFields(fs) ==
    IF fs = <<>> THEN <<>>
    ELSE JKey(fs[1][1]) \o fs[1][2] \o (IF Len(fs) > 1 THEN <<",">> ELSE <<>>) \o JFields(Tail(fs))

JObject(fs) == <<"{">> \o JFields(fs) \o <<"}">>

\* json.Marshal(source{IP, Tag, GUID})
MarshalSource(x) ==
    JObject(<< <<(<<"I", "P">>), JStr(x.IP)>>,
               <<(<<"T", "a", "g">>), JStr(x.Tag)>>,
               <<(<<"G", "U", "I", "D">>), JStr(x.GUID)>> >>)

\* json.Marshal(destination{IP, StartPort, EndPort, GUID, SourceGUID, Protocol, SourceTag})
MarshalDestination(x) ==
    JObject(<< <<(<<"I", "P">>), JStr(x.IP)>>,
               <<(<<"S", "t", "a", "r", "t", "P", "o", "r", "t">>), Itoa(x.StartPort)>>,
               <<(<<"E", "n", "d", "P", "o", "r", "t">>), Itoa(x.EndPort)>>,
               <<(<<"G", "U", "I", "D">>), JStr(x.GUID)>>,
               <<(<<"S", "o", "u", "r", "c", "e", "G", "U", "I", "D">>), JStr(x.SourceGUID)>>,
               <<(<<"P", "r", "o", "t", "o", "c", "o", "l">>), JStr(x.Protocol)>>,
               <<(<<"S", "o", "u", "r", "c", "e", "T", "a", "g">>), JStr(x.SourceTag)>> >>)

\* json.Marshal(egress{SourceIP, Protocol, IpStart, IpEnd, IcmpType, IcmpCode, PortStart, PortEnd})
MarshalEgress(x) ==
    JObject(<< <<(<<"S", "o", "u", "r", "c", "e", "I", "P">>), JStr(x.SourceIP)>>,
               <<(<<"P", "r", "o", "t", "o", "c", "o", "l">>), JStr(x.Protocol)>>,
               <<(<<"I", "p", "S", "t", "a", "r", "t">>), JStr(x.IpStart)>>,
               <<(<<"I", "p", "E", "n", "d">>), JStr(x.IpEnd)>>,
               <<(<<"I", "c", "m", "p", "T", "y", "p", "e">>), Itoa(x.IcmpType)>>,
               <<(<<"I", "c", "m", "p", "C", "o", "d", "e">>), Itoa(x.IcmpCode)>>,
               <<(<<"P", "o", "r", "t", "S", "t", "a", "r", "t">>), Itoa(x.PortStart)>>,
               <<(<<"P", "o", "r", "t", "E", "n", "d">>), Itoa(x.PortEnd)>> >>)

\* json.Marshal(ingress{IngressTag, IP, Protocol, Port})
MarshalIngress(x) ==
    JObject(<< <<(<<"I", "n", "g", "r", "e", "s", "s", "T", "a", "g">>), JStr(x.IngressTag)>>,
               <<(<<"I", "P">>), JStr(x.IP)>>,
               <<(<<"P", "r", "o", "t", "o", "c", "o", "l">>), JStr(x.Protocol)>>,
               <<(<<"P", "o", "r", "t">>), Itoa(x.Port)>> >>)

\* The four Less methods: compare the marshalled forms byte-wise.
sourceSliceLess(a, b) == StrLess(MarshalSource(a), MarshalSource(b))

destinationSliceLess(a, b) == StrLess(MarshalDestination(a), MarshalDestination(b))

egressSliceLess(a, b) == StrLess(MarshalEgress(a), MarshalEgress(b))

ingressSliceLess(a, b) == StrLess(MarshalIngress(a), MarshalIngress(b))

\* sort.Sort with the given Less: the element at position k of the result is
\* the one with k-1 elements before it (the smaller ones, and the equal ones
\* that came earlier).  Elements that compare equal have the same marshalled
\* form, so every correct sort, stable or not, yields this sequence.
SortWith(s, Less(_, _)) ==
    LET n == Len(s)
        rank == [i \in 1..n |->
                    Cardinality({j \in 1..n : Less(s[j], s[i])})
                    + Cardinality({j \in 1..(i - 1) : ~Less(s[i], s[j]) /\ ~Less(s[j], s[i])})
                    + 1]
    IN  [k \in 1..n |-> s[CHOOSE i \in 1..n : rank[i] = k]]

sortSource(s) == SortWith(s, sourceSliceLess)

\* A planner that forgets to sort the destination slice.
sortDestinationSkipped(s) == s

sortDestination(s) == SortWith(s, destinationSliceLess)

sortEgress(s) == SortWith(s, egressSliceLess)

sortIngress(s) == SortWith(s, ingressSliceLess)

(***************************************************************************)
(* planner_linux.go : getContainerPolicies                                 *)
(***************************************************************************)

\* The accumulator of one resolution pass: the four slices, the visited map
\* (the set of its keys) and how the pass has ended so far:
\*   "nil"   still running / returned without error
\*   "atoi"  returned the port conversion error
\*   "panic" index out of range at run time
EmptyPolicySet ==
    [Source |-> <<>>, Destination |-> <<>>, Egress |-> <<>>, Ingress |-> <<>>,
     visited |-> {}, err |-> "nil"]

\* The source match without the visited map.
sourceStepNoVisited(acc, container, policy) ==
    IF container.AppID = policy.Source.ID
    THEN [acc EXCEPT !.Source = Append(@, [IP |-> container.IP,
                                            Tag |-> policy.Source.Tag,
                                            GUID |-> policy.Source.ID])]
    ELSE acc

\* Lines 219-229: the source match, once per container IP.
sourceStep(acc, container, policy) ==
    IF container.AppID = policy.Source.ID /\ container.IP \notin acc.visited
    THEN [acc EXCEPT !.Source = Append(@, [IP |-> container.IP,
                                            Tag |-> policy.Source.Tag,
                                            GUID |-> policy.Source.ID]),
                     !.visited = @ \cup {container.IP}]
    ELSE acc

\* Lines 231-242: the destination match, never deduplicated.
destinationStep(acc, container, policy) ==
    IF container.AppID = policy.Destination.ID
    THEN [acc EXCEPT !.Destination =
              Append(@, [IP |-> container.IP,
                         StartPort |-> policy.Destination.Ports.Start,
                         EndPort |-> policy.Destination.Ports.End,
                         Protocol |-> policy.Destination.Protocol,
                         SourceTag |-> policy.Source.Tag,
                         GUID |-> policy.Destination.ID,
                         SourceGUID |-> policy.Source.ID])]
    ELSE acc

containerPurposeMatchesAppLifecycle(containerPurpose, appLifecycle) ==
    \/ appLifecycle = "all"
    \/ containerPurpose = ""
    \/ (appLifecycle = "running" /\ (containerPurpose = "task" \/ containerPurpose = "app"))
    \/ (appLifecycle = "staging" /\ containerPurpose = "staging")

\* The source-scope predicate with the type test of the space clause dropped.
egressSourceMatchesAnyType(container, egressPolicy) ==
    \/ egressPolicy.Source.ID = container.AppID
    \/ egressPolicy.Source.ID = container.SpaceID
    \/ egressPolicy.Source.Type = "default"

\* Lines 246-248: the source-scope predicate of an egress policy.
egressSourceMatches(container, egressPolicy) ==
    \/ egressPolicy.Source.ID = container.AppID
    \/ (egressPolicy.Source.ID = container.SpaceID /\ egressPolicy.Source.Type = "space")
    \/ egressPolicy.Source.Type = "default"

\* Lines 245-270: one egress policy against one container.  IPRanges[0] is read
\* without a length check: an empty IPRanges panics with index out of range.
egressStep(acc, container, egressPolicy) ==
    IF egressSourceMatches(container, egressPolicy)
       /\ containerPurposeMatchesAppLifecycle(container.Purpose, egressPolicy.AppLifecycle)
    THEN LET hasPorts == Len(egressPolicy.Destination.Ports) > 0
             startPort == IF hasPorts THEN egressPolicy.Destination.Ports[1].Start ELSE 0
             endPort == IF hasPorts THEN egressPolicy.Destination.Ports[1].End ELSE 0
         IN  IF Len(egressPolicy.Destination.IPRanges) = 0
             THEN [acc EXCEPT !.err = "panic"]
             ELSE [acc EXCEPT !.Egress =
                       Append(@, [SourceIP |-> container.IP,
                                  Protocol |-> egressPolicy.Destination.Protocol,
                                  IpStart |-> egressPolicy.Destination.IPRanges[1].Start,
                                  IpEnd |-> egressPolicy.Destination.IPRanges[1].End,
                                  IcmpType |-> egressPolicy.Destination.ICMPType,
                                  IcmpCode |-> egressPolicy.Destination.ICMPCode,
                                  PortStart |-> startPort,
                                  PortEnd |-> endPort])]
    ELSE acc

\* A port loop that skips a bad entry instead of returning the error.
ingressStepSkipBad(acc, container, port, ingressTag) ==
    LET conv == Atoi(TrimSpace(port))
    IN  IF ~conv.ok
        THEN acc
        ELSE [acc EXCEPT !.Ingress = Append(@, [IngressTag |-> ingressTag,
                                                 IP |-> container.IP,
                                                 Protocol |-> <<"t", "c", "p">>,
                                                 Port |-> conv.val])]

\* Lines 275-284: one entry of the split port list.
ingressStep(acc, container, port, ingressTag) ==
    LET conv == Atoi(TrimSpace(port))
    IN  IF ~conv.ok
        THEN [acc EXCEPT !.err = "atoi"]
        ELSE [acc EXCEPT !.Ingress = Append(@, [IngressTag |-> ingressTag,
                                                 IP |-> container.IP,
                                                 Protocol |-> <<"t", "c", "p">>,
                                                 Port |-> conv.val])]

\* Lines 218-243: the loop over the policies for one container.
RECURSIVE policyLoop(_, _, _)
policyLoop(acc, container, policies) ==
    IF policies = <<>> THEN acc
    ELSE policyLoop(destinationStep(sourceStep(acc, container, policies[1]), container, policies[1]),
                    container, Tail(policies))

\* Lines 245-270: the loop over the egress policies; a panic ends the pass.
RECURSIVE egressLoop(_, _, _)
egressLoop(acc, container, egressPolicies) ==
    IF egressPolicies = <<>> \/ acc.err # "nil" THEN acc
    ELSE egressLoop(egressStep(acc, container, egressPolicies[1]), container, Tail(egressPolicies))

\* Lines 274-285: the loop over the ports; the first bad one returns.
RECURSIVE portLoop(_, _, _, _)
portLoop(acc, container, ports, ingressTag) ==
    IF ports = <<>> \/ acc.err # "nil" THEN acc
    ELSE portLoop(ingressStep(acc, container, ports[1], ingressTag), container, Tail(ports), ingressTag)

\* Lines 272-287: the ingress rules of one container.
ingressPart(acc, container, ingressTag, EnableOverlayIngressRules) ==
    IF acc.err = "nil" /\ EnableOverlayIngressRules /\ container.Ports # <<>>
    THEN portLoop(acc, container, Split(container.Ports, ","), ingressTag)
    ELSE acc

\* Lines 217-288: the loop over the containers.
RECURSIVE containerLoop(_, _, _, _, _, _)
containerLoop(acc, policies, egressPolicies, ingressTag, containers, EnableOverlayIngressRules) ==
    IF containers = <<>> \/ acc.err # "nil" THEN acc
    ELSE containerLoop(
             ingressPart(egressLoop(policyLoop(acc, containers[1], policies),
                                    containers[1], egressPolicies),
                         containers[1], ingressTag, EnableOverlayIngressRules),
             policies, egressPolicies, ingressTag, Tail(containers), EnableOverlayIngressRules)

\* Lines 214-296.  On the conversion error the slices are returned as they are,
\* unsorted; a panic returns nothing.
getContainerPolicies(policies, egressPolicies, ingressTag, allContainers, EnableOverlayIngressRules) ==
    LET acc == containerLoop(EmptyPolicySet, policies, egressPolicies, ingressTag,
                             allContainers, EnableOverlayIngressRules)
    IN  CASE acc.err = "nil" ->
                 [Source |-> sortSource(acc.Source),
                  Destination |-> sortDestination(acc.Destination),
                  Egress |-> sortEgress(acc.Egress),
                  Ingress |-> sortIngress(acc.Ingress),
                  err |-> "nil"]
          [] acc.err = "atoi" ->
                 [Source |-> acc.Source, Destination |-> acc.Destination,
                  Egress |-> acc.Egress, Ingress |-> acc.Ingress, err |-> "atoi"]
          [] OTHER ->
                 [Source |-> <<>>, Destination |-> <<>>, Egress |-> <<>>, Ingress |-> <<>>,
                  err |-> "panic"]

(***************************************************************************)
(* planner_linux.go : planIPTableRules, queryPolicyServer, GetRulesAndChain*)
(***************************************************************************)

\* A rule built by the rules package: an opaque term, the constructor's name
\* applied to its arguments.
Rule(fn, args) == [fn |-> fn, args |-> args]

RECURSIVE Flatten(_)
Flatten(ss) == IF ss = <<>> THEN <<>> ELSE ss[1] \o Flatten(Tail(ss))

\* Lines 298-355.
planIPTableRules(cps, loggingEnabled, HostInterfaceNames, IPTablesAcceptedUDPLogsPerSec) ==
    LET marks == [i \in 1..Len(cps.Source) |->
                     Rule("NewMarkSetRule",
                          <<cps.Source[i].IP, cps.Source[i].Tag, cps.Source[i].GUID>>)]
        allows == Flatten([i \in 1..Len(cps.Destination) |->
                     LET d == cps.Destination[i]
                     IN  (IF loggingEnabled
                          THEN <<Rule("NewMarkAllowLogRule",
                                      <<d.IP, d.Protocol, d.StartPort, d.EndPort, d.SourceTag,
                                        d.GUID, IPTablesAcceptedUDPLogsPerSec>>)>>
                          ELSE <<>>)
                         \o <<Rule("NewMarkAllowRule",
                                   <<d.IP, d.Protocol, d.StartPort, d.EndPort, d.SourceTag,
                                     d.SourceGUID, d.GUID>>)>>])
        egresses == Flatten([i \in 1..Len(cps.Egress) |->
                     LET e == cps.Egress[i]
                     IN  [h \in 1..Len(HostInterfaceNames) |->
                             Rule("NewEgress",
                                  <<HostInterfaceNames[h], e.SourceIP, e.Protocol, e.IpStart,
                                    e.IpEnd, e.IcmpType, e.IcmpCode, e.PortStart, e.PortEnd>>)]])
        ingresses == [i \in 1..Len(cps.Ingress) |->
                     Rule("NewMarkAllowRuleNoComment",
                          <<cps.Ingress[i].IP, cps.Ingress[i].Protocol, cps.Ingress[i].Port,
                            cps.Ingress[i].IngressTag>>)]
    IN  marks \o allows \o egresses \o ingresses

\* extractGUIDs: the application ids of the containers read.
extractGUIDs(allContainers) == {allContainers[i].AppID : i \in 1..Len(allContainers)}

\* Lines 184-212.  server is the policy server's behaviour in this round: what
\* GetPoliciesByID and CreateOrGetTag answer, and whether either fails.
queryPolicyServer(allContainers, server, EnableOverlayIngressRules) ==
    LET guids == extractGUIDs(allContainers)
        asked == guids # {}
    IN  IF asked /\ server.policiesFail
        THEN [policies |-> <<>>, egressPolicies |-> <<>>, ingressTag |-> <<>>,
              err |-> "failed to get policies"]
        ELSE IF EnableOverlayIngressRules /\ server.tagFail
        THEN [policies |-> <<>>, egressPolicies |-> <<>>, ingressTag |-> <<>>,
              err |-> "failed to get ingress tags"]
        ELSE [policies |-> IF asked THEN server.policies ELSE <<>>,
              egressPolicies |-> IF asked THEN server.egressPolicies ELSE <<>>,
              ingressTag |-> IF EnableOverlayIngressRules THEN server.tag ELSE <<>>,
              err |-> "nil"]

\* enforcer.RulesWithChain{} and the planner's own chain.
ZeroChain == "none"

PlannerChain == "p.Chain"

\* Lines 158-182.  file is what readFile yields.  The result's err is "nil" on
\* success; a run-time panic inside getContainerPolicies is a failure with no
\* value returned.
GetRulesAndChain(file, server, EnableOverlayIngressRules, loggingEnabled, HostInterfaceNames, IPTablesAcceptedUDPLogsPerSec) ==
    IF file.err
    THEN [Chain |-> ZeroChain, Rules |-> <<>>, err |-> "datastore"]
    ELSE LET q == queryPolicyServer(file.containers, server, EnableOverlayIngressRules)
         IN  IF q.err # "nil"
             THEN [Chain |-> ZeroChain, Rules |-> <<>>, err |-> q.err]
             ELSE LET cps == getContainerPolicies(q.policies, q.egressPolicies, q.ingressTag,
                                                  file.containers, EnableOverlayIngressRules)
                  IN  IF cps.err # "nil"
                      THEN [Chain |-> ZeroChain, Rules |-> <<>>, err |-> cps.err]
                      ELSE [Chain |-> PlannerChain,
                            Rules |-> planIPTableRules(cps, loggingEnabled, HostInterfaceNames,
                                                       IPTablesAcceptedUDPLogsPerSec),
                            err |-> "nil"]

(***************************************************************************)
(* The planner's inputs                                                    *)
(***************************************************************************)

IP1 == <<"1", "0", ".", "0", ".", "0", ".", "1">>

IP2 == <<"1", "0", ".", "0", ".", "0", ".", "2">>

IP3 == <<"1", "0", ".", "0", ".", "0", ".", "3">>

Tcp == <<"t", "c", "p">>

Udp == <<"u", "d", "p">>

Icmp == <<"i", "c", "m", "p">>

\* Containers: two share an IP, one space id equals another's app id, the port
\* lists are empty, well-formed (with blanks) or hold a non-integer entry.
ContainerA1 ==
    [IP |-> IP1, AppID |-> <<"a">>, SpaceID |-> <<"s">>, Purpose |-> "app",
     Ports |-> <<"8", "0">>]

ContainerB2 ==
    [IP |-> IP2, AppID |-> <<"b">>, SpaceID |-> <<"a">>, Purpose |-> "task",
     Ports |-> <<"9", "0", ",", " ", "8", "0">>]

ContainerB1 ==
    [IP |-> IP1, AppID |-> <<"b">>, SpaceID |-> <<"s">>, Purpose |-> "",
     Ports |-> <<>>]

ContainerA3 ==
    [IP |-> IP3, AppID |-> <<"a">>, SpaceID |-> <<"t">>, Purpose |-> "staging",
     Ports |-> <<"8", "0", ",", "a", "b", "c">>]

\* The container lists a round may read.
ContainerLists ==
    { <<>>, <<ContainerA1>>, <<ContainerB2>>, <<ContainerA3>>,
      <<ContainerA1, ContainerB2>>, <<ContainerB2, ContainerA1>>,
      <<ContainerA1, ContainerB1>>, <<ContainerB1, ContainerA1>>,
      <<ContainerB2, ContainerA3>>, <<ContainerA3, ContainerB2>>,
      <<ContainerB1, ContainerB2, ContainerA1>> }

\* Policies: two name source a with different tags.
PolicyPool ==
    { [Source |-> [ID |-> <<"a">>, Tag |-> <<"1">>],
       Destination |-> [ID |-> <<"b">>, Protocol |-> Tcp, Ports |-> [Start |-> 80, End |-> 80]]],
      [Source |-> [ID |-> <<"a">>, Tag |-> <<"2">>],
       Destination |-> [ID |-> <<"a">>, Protocol |-> Udp, Ports |-> [Start |-> 53, End |-> 53]]],
      [Source |-> [ID |-> <<"b">>, Tag |-> <<"3">>],
       Destination |-> [ID |-> <<"a">>, Protocol |-> Tcp, Ports |-> [Start |-> 443, End |-> 500]]],
      [Source |-> [ID |-> <<"c">>, Tag |-> <<"4">>],
       Destination |-> [ID |-> <<"b">>, Protocol |-> Tcp, Ports |-> [Start |-> 9, End |-> 9]]] }

Range1 == [Start |-> <<"1", ".", "1", ".", "1", ".", "1">>, End |-> <<"1", ".", "1", ".", "1", ".", "9">>]

Range2 == [Start |-> <<"2", ".", "2", ".", "2", ".", "2">>, End |-> <<"2", ".", "2", ".", "2", ".", "9">>]

\* Egress policies of the three source types and the three lifecycles, with
\* zero, one or two IP ranges and port ranges.
EgressPool ==
    { [Source |-> [ID |-> <<"a">>, Type |-> "app"], AppLifecycle |-> "all",
       Destination |-> [Protocol |-> Tcp, IPRanges |-> <<Range1>>,
                        Ports |-> <<[Start |-> 8080, End |-> 8081]>>,
                        ICMPType |-> 0, ICMPCode |-> 0]],
      [Source |-> [ID |-> <<"a">>, Type |-> "space"], AppLifecycle |-> "running",
       Destination |-> [Protocol |-> Icmp, IPRanges |-> <<Range2, Range1>>,
                        Ports |-> <<>>, ICMPType |-> 8, ICMPCode |-> 1]],
      [Source |-> [ID |-> <<>>, Type |-> "default"], AppLifecycle |-> "staging",
       Destination |-> [Protocol |-> Udp, IPRanges |-> <<Range1>>,
                        Ports |-> <<[Start |-> 53, End |-> 53], [Start |-> 67, End |-> 68]>>,
                        ICMPType |-> 0, ICMPCode |-> 0]],
      [Source |-> [ID |-> <<"b">>, Type |-> "app"], AppLifecycle |-> "all",
       Destination |-> [Protocol |-> Tcp, IPRanges |-> <<>>,
                        Ports |-> <<[Start |-> 22, End |-> 22]>>,
                        ICMPType |-> 0, ICMPCode |-> 0]],
      [Source |-> [ID |-> <<"s">>, Type |-> "app"], AppLifecycle |-> "all",
       Destination |-> [Protocol |-> Tcp, IPRanges |-> <<Range2>>,
                        Ports |-> <<[Start |-> 25, End |-> 25]>>,
                        ICMPType |-> 0, ICMPCode |-> 0]] }

\* The longest policy and egress-policy lists of a round.
MaxPolicies == 2

MaxEgressPolicies == 1

\* All sequences over S of length at most n.
SeqsUpTo(S, n) == UNION {[1..k -> S] : k \in 0..n}

\* The tag the policy server hands out for the ingress router.
IngressRouterTag == <<"f", "f">>

PlannerHostInterfaceNames == <<"eth0", "eth1">>

PlannerAcceptedUDPLogsPerSec == 100

\* The permutations of 1..n.
Perms(n) == {f \in [1..n -> 1..n] : \A i, j \in 1..n : f[i] = f[j] => i = j}

Permuted(s, f) == [i \in 1..Len(s) |-> s[f[i]]]

(***************************************************************************)
(* netout.go : the standard-library parsers it calls                       *)
(***************************************************************************)

\* net.SplitHostPort (called at lines 236 and 250).
SplitHostPort(hostport) ==
    LET n == Len(hostport)
        i == LastIndexByte(hostport, ":")
        bad == [ok |-> FALSE, host |-> <<>>, port |-> <<>>]
    IN  IF i = 0 THEN bad
        ELSE IF hostport[1] = "["
        THEN LET end == IndexByte(hostport, "]")
             IN  IF end = 0 \/ end + 1 # i THEN bad
                 ELSE IF IndexByte(SubSeq(hostport, 2, n), "[") # 0
                         \/ IndexByte(SubSeq(hostport, end + 1, n), "]") # 0
                 THEN bad
                 ELSE [ok |-> TRUE, host |-> SubSeq(hostport, 2, end - 1),
                       port |-> SubSeq(hostport, i + 1, n)]
        ELSE IF IndexByte(SubSeq(hostport, 1, i - 1), ":") # 0
                \/ IndexByte(hostport, "[") # 0
                \/ IndexByte(hostport, "]") # 0
        THEN bad
        ELSE [ok |-> TRUE, host |-> SubSeq(hostport, 1, i - 1),
              port |-> SubSeq(hostport, i + 1, n)]

\* One to three decimal digits without a leading zero, at most 255.
ParseOctet(s) ==
    IF Len(s) \notin 1..3 \/ (\E i \in 1..Len(s) : ~IsDigit(s[i])) \/ (Len(s) > 1 /\ s[1] = "0")
    THEN [ok |-> FALSE, val |-> 0]
    ELSE IF DigitsVal(s) > 255 THEN [ok |-> FALSE, val |-> 0]
    ELSE [ok |-> TRUE, val |-> DigitsVal(s)]

RECURSIVE Pow2(_)
Pow2(k) == IF k = 0 THEN 1 ELSE 2 * Pow2(k - 1)

\* The octet at position idx (0..3) of an address masked to its first bits bits.
MaskOctet(val, idx, bits) ==
    LET keep == Max(0, Min(8, bits - 8 * idx))
    IN  (val \div Pow2(8 - keep)) * Pow2(8 - keep)

\* net.ParseCIDR followed by the %s verb (lines 277 and 283), for dotted
\* IPv4 text: the network address and the prefix length.
ParseCIDR(s) ==
    LET slash == IndexByte(s, "/")
        addr == SubSeq(s, 1, slash - 1)
        mask == SubSeq(s, slash + 1, Len(s))
        parts == Split(addr, ".")
        bad == [ok |-> FALSE, text |-> <<>>]
    IN  IF slash = 0 \/ Len(parts) # 4 THEN bad
        ELSE IF \E k \in 1..4 : ~ParseOctet(parts[k]).ok THEN bad
        ELSE IF mask = <<>> \/ Len(mask) > 3 \/ (\E k \in 1..Len(mask) : ~IsDigit(mask[k])) THEN bad
        ELSE IF DigitsVal(mask) > 32 THEN bad
        ELSE LET bits == DigitsVal(mask)
                 oct == [k \in 1..4 |-> MaskOctet(ParseOctet(parts[k]).val, k - 1, bits)]
             IN  [ok |-> TRUE,
                  text |-> Itoa(oct[1]) \o <<".">> \o Itoa(oct[2]) \o <<".">> \o Itoa(oct[3])
                           \o <<".">> \o Itoa(oct[4]) \o <<"/">> \o Itoa(bits)]

(***************************************************************************)
(* netout.go : the chain tree                                              *)
(***************************************************************************)

\* ChainNamer.Prefix and ChainNamer.Postfix: names are opaque, built from
\* their parts.  Postfix may fail.
Prefix(prefix, handle) == <<prefix, handle>>

Postfix(chain, suffix) == chain \o <<suffix>>

NoChain == <<>>

IpTablesFullChain(table, parent, name, jumpConditions, body) ==
    [Table |-> table, ParentChain |-> parent, ChainName |-> name,
     JumpConditions |-> jumpConditions, Rules |-> body]

\* rules.NewNetOutJumpConditions: one condition per host interface.
NewNetOutJumpConditions(hostInterfaceNames, containerIP, forwardChainName) ==
    [i \in 1..Len(hostInterfaceNames) |->
        Rule("NewNetOutJumpCondition", <<hostInterfaceNames[i], containerIP, forwardChainName>>)]

\* A chain whose reject-log rule is put behind the terminal rule.
insertBeforeLastSwapped(body, rule) == body \o <<rule>>

\* Lines 196-201 and 209-214: append(c.Rules[:lastIndex], rule, c.Rules[lastIndex]).
insertBeforeLast(body, rule) ==
    SubSeq(body, 1, Len(body) - 1) \o <<rule, body[Len(body)]>>

\* Lines 194-205.
addASGLogging(nm, c) ==
    IF nm.ASGLogging
    THEN [c EXCEPT !.Rules = insertBeforeLast(@,
              Rule("NewNetOutDefaultRejectLogRule", <<nm.ContainerHandle, nm.DeniedLogsPerSec>>))]
    ELSE c

\* Lines 207-218.
addC2CLogging(nm, c) ==
    IF nm.C2CLogging
    THEN [c EXCEPT !.Rules = insertBeforeLast(@,
              Rule("NewOverlayDefaultRejectLogRule",
                   <<nm.ContainerHandle, nm.ContainerIP, nm.DeniedLogsPerSec>>))]
    ELSE c

\* Lines 349-357.
netOutLogChain(forwardChainName, suffix, logRules) ==
    LET logChainName == Postfix(forwardChainName, suffix)
    IN  IpTablesFullChain("filter", NoChain, logChainName,
                          <<Rule("IPTablesRule", <<"--jump", logChainName>>)>>, logRules)

\* Lines 338-347.
connRateLimitLogChain(nm, forwardChainName) ==
    netOutLogChain(forwardChainName, "rl-log",
        (IF nm.Conn.Logging
         THEN <<Rule("NewNetOutConnRateLimitRejectLogRule",
                     <<nm.ContainerHandle, nm.DeniedLogsPerSec>>)>>
         ELSE <<>>)
        \o (IF ~nm.Conn.DryRun THEN <<Rule("NewNetOutDefaultRejectRule", <<>>)>> ELSE <<>>))

\* Lines 126-192.  postfixFails: the chain namer refuses to build a name.
defaultNetOutRules(nm, postfixFails) ==
    LET inputChainName == Prefix("input", nm.ContainerHandle)
        forwardChainName == Prefix("netout", nm.ContainerHandle)
        overlayChain == Prefix("overlay", nm.ContainerHandle)
        args ==
            << IpTablesFullChain("filter", <<"INPUT">>, inputChainName,
                   <<Rule("IPTablesRule", <<"-s", nm.ContainerIP, "--jump", inputChainName>>)>>,
                   <<Rule("NewInputRelatedEstablishedRule", <<>>),
                     Rule("NewInputDefaultRejectRule", <<>>)>>),
               addASGLogging(nm,
                   IpTablesFullChain("filter", <<"FORWARD">>, forwardChainName,
                       NewNetOutJumpConditions(nm.HostInterfaceNames, nm.ContainerIP,
                                               forwardChainName),
                       <<Rule("NewNetOutDefaultRejectRule", <<>>)>>)),
               addC2CLogging(nm,
                   IpTablesFullChain("filter", <<"FORWARD">>, overlayChain,
                       <<Rule("IPTablesRule", <<"--jump", overlayChain>>)>>,
                       <<Rule("NewOverlayAllowEgress", <<nm.VTEPName, nm.ContainerIP>>),
                         Rule("NewOverlayRelatedEstablishedRule", <<nm.ContainerIP>>),
                         Rule("NewOverlayTagAcceptRule", <<nm.ContainerIP, nm.IngressTag>>),
                         Rule("NewOverlayDefaultRejectRule", <<nm.ContainerIP>>)>>)) >>
        logChainRules ==
            <<Rule("NewNetOutDefaultNonUDPLogRule", <<nm.ContainerHandle>>),
              Rule("NewNetOutDefaultUDPLogRule", <<nm.ContainerHandle, nm.AcceptedUDPLogsPerSec>>),
              Rule("NewAcceptRule", <<>>)>>
    IN  IF postfixFails
        THEN [args |-> <<>>, err |-> "getting chain name"]
        ELSE [args |-> args
                       \o <<netOutLogChain(forwardChainName, "log", logChainRules)>>
                       \o (IF nm.Conn.Limit
                           THEN <<connRateLimitLogChain(nm, forwardChainName)>>
                           ELSE <<>>),
              err |-> "nil"]

\* rules.NewInputAllowRule(protocol, host, port)
NewInputAllowRule(protocol, host, port) == Rule("NewInputAllowRule", <<protocol, host, port>>)

\* Lines 230-233.
dnsRules(dnsServers) ==
    Flatten([i \in 1..Len(dnsServers) |->
                <<NewInputAllowRule("tcp", dnsServers[i], 53),
                  NewInputAllowRule("udp", dnsServers[i], 53)>>])

\* Lines 236-246 and 250-260: one host service string.
hostServiceRule(protocol, hostService) ==
    LET hp == SplitHostPort(hostService)
        portInt == Atoi(hp.port)
    IN  IF ~hp.ok \/ ~portInt.ok
        THEN [ok |-> FALSE, rule |-> <<>>]
        ELSE [ok |-> TRUE, rule |-> NewInputAllowRule(protocol, hp.host, portInt.val)]

\* Lines 235-247 and 249-261: the loop over one list of host services.
hostServiceRules(protocol, hostServices) ==
    LET each == [i \in 1..Len(hostServices) |-> hostServiceRule(protocol, hostServices[i])]
    IN  IF \E i \in 1..Len(each) : ~each[i].ok
        THEN [ok |-> FALSE, rules |-> <<>>]
        ELSE [ok |-> TRUE, rules |-> [i \in 1..Len(each) |-> each[i].rule]]

\* Lines 220-266.
appendInputRules(args, dnsServers, hostTCPServices, hostUDPServices) ==
    LET tcp == hostServiceRules("tcp", hostTCPServices)
        udp == hostServiceRules("udp", hostUDPServices)
    IN  IF ~tcp.ok THEN [args |-> <<>>, err |-> "host tcp services"]
        ELSE IF ~udp.ok THEN [args |-> <<>>, err |-> "host udp services"]
        ELSE [args |-> [args EXCEPT ![1].Rules =
                            <<Rule("NewInputRelatedEstablishedRule", <<>>)>>
                            \o dnsRules(dnsServers) \o tcp.rules \o udp.rules
                            \o <<Rule("NewInputDefaultRejectRule", <<>>)>>],
              err |-> "nil"]

(***************************************************************************)
(* netout.go : validateDenyNetworks                                        *)
(***************************************************************************)

\* Lines 276-284 over one list, entered only while no entry has failed: every
\* entry before the first unparsable one is overwritten with its canonical
\* text, the unparsable one and those after it are left.
validateList(list) ==
    LET badAt == {i \in 1..Len(list) : ~ParseCIDR(list[i]).ok}
        first == IF badAt = {} THEN Len(list) + 1
                 ELSE CHOOSE i \in badAt : \A j \in badAt : i <= j
    IN  [list |-> [i \in 1..Len(list) |->
                      IF i < first THEN ParseCIDR(list[i]).text ELSE list[i]],
         ok |-> badAt = {}]

\* A validation that writes nothing back unless every entry parses.
validateDenyNetworksAllOrNothing(deny) ==
    LET always == validateList(deny.Always)
        running == validateList(deny.Running)
        staging == validateList(deny.Staging)
    IN  IF always.ok /\ running.ok /\ staging.ok
        THEN [DenyNetworks |-> [Always |-> always.list, Running |-> running.list,
                                Staging |-> staging.list],
              err |-> "nil"]
        ELSE [DenyNetworks |-> deny, err |-> "deny networks"]

\* Lines 268-288.  The three slices share their arrays with m.DenyNetworks, so
\* the assignment at line 283 writes into the configured lists.
validateDenyNetworks(deny) ==
    LET always == validateList(deny.Always)
        running == validateList(deny.Running)
        staging == validateList(deny.Staging)
    IN  IF ~always.ok
        THEN [DenyNetworks |-> [deny EXCEPT !.Always = always.list], err |-> "deny networks"]
        ELSE IF ~running.ok
        THEN [DenyNetworks |-> [deny EXCEPT !.Always = always.list, !.Running = running.list],
              err |-> "deny networks"]
        ELSE [DenyNetworks |-> [Always |-> always.list, Running |-> running.list,
                                Staging |-> staging.list],
              err |-> IF staging.ok THEN "nil" ELSE "deny networks"]

(***************************************************************************)
(* netout.go : Initialize and Cleanup against the packet-filter adapter    *)
(***************************************************************************)

\* The adapter's state: the rules of every chain that exists.
EmptyTables == [c \in {<<"INPUT">>, <<"FORWARD">>} |-> <<>>]

\* One adapter call applied to the adapter's state.  Creating a chain that
\* exists changes nothing.
AdapterCall(ipt, call) ==
    IF call.kind = "NewChain"
    THEN IF call.chain \in DOMAIN ipt THEN ipt ELSE (call.chain :> <<>>) @@ ipt
    ELSE [ipt EXCEPT ![call.chain] = @ \o call.rules]

\* initChains: one chain-create call per chain of the tree, in order.
initChains(args) ==
    [i \in 1..Len(args) |-> [kind |-> "NewChain", chain |-> args[i].ChainName, rules |-> <<>>]]

\* applyRules: per chain of the tree, in order, the jump conditions into the
\* parent chain (when it has one) and then the body.
applyRules(args) ==
    Flatten([i \in 1..Len(args) |->
        (IF args[i].ParentChain # NoChain
         THEN <<[kind |-> "BulkAppend", chain |-> args[i].ParentChain,
                 rules |-> args[i].JumpConditions]>>
         ELSE <<>>)
        \o <<[kind |-> "BulkAppend", chain |-> args[i].ChainName, rules |-> args[i].Rules]>>])

\* The adapter calls made one after the other; the call numbered failAt (if
\* any) fails without effect and ends the sequence.
RECURSIVE RunCalls(_, _, _)
RunCalls(ipt, calls, failAt) ==
    IF calls = <<>> \/ failAt = 1 THEN ipt
    ELSE RunCalls(AdapterCall(ipt, calls[1]), Tail(calls), failAt - 1)

\* The first occurrence of rule removed from body.
RemoveFirst(body, rule) ==
    LET at == {i \in 1..Len(body) : body[i] = rule}
    IN  IF at = {} THEN body
        ELSE LET i == CHOOSE k \in at : \A l \in at : k <= l
             IN  SubSeq(body, 1, i - 1) \o SubSeq(body, i + 1, Len(body))

RECURSIVE RemoveAll(_, _)
RemoveAll(body, rs) ==
    IF rs = <<>> THEN body ELSE RemoveAll(RemoveFirst(body, rs[1]), Tail(rs))

\* cleanupChains: per chain of the tree, its jump conditions are deleted from
\* the parent chain and the chain itself is deleted.
RECURSIVE cleanupChains(_, _)
cleanupChains(args, ipt) ==
    IF args = <<>> THEN ipt
    ELSE LET c == args[1]
             unhooked == IF c.ParentChain # NoChain /\ c.ParentChain \in DOMAIN ipt
                         THEN [ipt EXCEPT ![c.ParentChain] = RemoveAll(@, c.JumpConditions)]
                         ELSE ipt
         IN  cleanupChains(Tail(args),
                 [n \in (DOMAIN unhooked) \ {c.ChainName} |-> unhooked[n]])

\* What an operation hands back to the action that ran it.
Result(nm, ipt, err, creates, applies, args) ==
    [m |-> nm, iptables |-> ipt, err |-> err, creates |-> creates, applies |-> applies,
     args |-> args]

\* An Initialize that creates the chains before it validates its inputs.
InitializeCreatesFirst(nm, ipt, postfixFails, failAt) ==
    LET d == defaultNetOutRules(nm, postfixFails)
        v == validateDenyNetworks(nm.DenyNetworks)
        nm2 == [nm EXCEPT !.DenyNetworks = v.DenyNetworks]
        a == appendInputRules(d.args, nm2.DNSServers, nm2.HostTCPServices, nm2.HostUDPServices)
        creates == initChains(d.args)
        created == RunCalls(ipt, creates, 0)
    IN  IF d.err # "nil" THEN Result(nm, ipt, d.err, 0, 0, <<>>)
        ELSE IF v.err # "nil" THEN Result(nm2, created, v.err, Len(creates), 0, <<>>)
        ELSE IF a.err # "nil" THEN Result(nm2, created, "input rules", Len(creates), 0, <<>>)
        ELSE Result(nm2, RunCalls(created, applyRules(a.args), 0), "nil",
                    Len(creates), Len(applyRules(a.args)), a.args)

\* An Initialize that undoes its own adapter calls when one of them fails.
InitializeRollsBack(nm, ipt, postfixFails, failAt) ==
    LET d == defaultNetOutRules(nm, postfixFails)
        v == validateDenyNetworks(nm.DenyNetworks)
        nm2 == [nm EXCEPT !.DenyNetworks = v.DenyNetworks]
        a == appendInputRules(d.args, nm2.DNSServers, nm2.HostTCPServices, nm2.HostUDPServices)
        creates == initChains(a.args)
        applies == applyRules(a.args)
    IN  IF d.err # "nil" THEN Result(nm, ipt, d.err, 0, 0, <<>>)
        ELSE IF v.err # "nil" THEN Result(nm2, ipt, v.err, 0, 0, <<>>)
        ELSE IF a.err # "nil" THEN Result(nm2, ipt, "input rules", 0, 0, <<>>)
        ELSE IF failAt \in 1..Len(creates)
        THEN Result(nm2, ipt, "creating chain", failAt, 0, a.args)
        ELSE IF failAt \in (Len(creates) + 1)..(Len(creates) + Len(applies))
        THEN Result(nm2, ipt, "applying rules", Len(creates), failAt - Len(creates), a.args)
        ELSE Result(nm2, RunCalls(ipt, creates \o applies, 0), "nil",
                    Len(creates), Len(applies), a.args)

\* Lines 73-81: initChains and applyRules on the finished tree a.  creates and
\* applies are their adapter calls; the call numbered failAt (0: none) fails.
InitializeChains(nm, ipt, failAt, a, creates, applies) ==
    IF failAt \in 1..Len(creates)
    THEN Result(nm, RunCalls(ipt, creates, failAt), "creating chain", failAt, 0, a.args)
    ELSE IF failAt \in (Len(creates) + 1)..(Len(creates) + Len(applies))
    THEN Result(nm, RunCalls(ipt, creates \o applies, failAt), "applying rules",
                Len(creates), failAt - Len(creates), a.args)
    ELSE Result(nm, RunCalls(ipt, creates \o applies, 0), "nil",
                Len(creates), Len(applies), a.args)

\* Lines 56-76: the returns on the errors of defaultNetOutRules (d),
\* validateDenyNetworks (v) and appendInputRules (a), in that order.
InitializeChecked(nm, ipt, failAt, d, v, a) ==
    IF d.err # "nil" THEN Result(nm, ipt, d.err, 0, 0, <<>>)
    ELSE IF v.err # "nil"
    THEN Result([nm EXCEPT !.DenyNetworks = v.DenyNetworks], ipt, v.err, 0, 0, <<>>)
    ELSE IF a.err # "nil"
    THEN Result([nm EXCEPT !.DenyNetworks = v.DenyNetworks], ipt, "input rules", 0, 0, <<>>)
    ELSE InitializeChains([nm EXCEPT !.DenyNetworks = v.DenyNetworks], ipt, failAt, a,
                          initChains(a.args), applyRules(a.args))

\* Lines 55-82.  postfixFails and failAt are the environment of this call: the
\* chain namer refusing a name, and the number of the adapter call that fails
\* (0: none does).  In the result, creates and applies count the adapter calls
\* received, the failing one included.
Initialize(nm, ipt, postfixFails, failAt) ==
    InitializeChecked(nm, ipt, failAt,
        defaultNetOutRules(nm, postfixFails),
        validateDenyNetworks(nm.DenyNetworks),
        appendInputRules(defaultNetOutRules(nm, postfixFails).args,
                         nm.DNSServers, nm.HostTCPServices, nm.HostUDPServices))

\* Lines 84-92.  adapterFails: the adapter refuses the first deletion.
Cleanup(nm, ipt, postfixFails, adapterFails) ==
    LET d == defaultNetOutRules(nm, postfixFails)
    IN  IF d.err # "nil" THEN Result(nm, ipt, d.err, 0, 0, <<>>)
        ELSE IF adapterFails THEN Result(nm, ipt, "cleanup", 0, 0, d.args)
        ELSE Result(nm, cleanupChains(d.args, ipt), "nil", 0, 0, d.args)

\* The most adapter calls an Initialize of this NetOut can make.
AdapterCallCount(nm) ==
    LET d == defaultNetOutRules(nm, FALSE)
    IN  Len(initChains(d.args)) + Len(applyRules(d.args))

(***************************************************************************)
(* netout.go : rateLimitExpiryPeriod                                       *)
(*                                                                         *)
(* Go's int and int64 are 64 bits wide and float64 carries 53 significant  *)
(* bits.  Natural numbers of that size are sequences of bits, least        *)
(* significant first, without leading zeros (zero is the empty sequence).  *)
(***************************************************************************)

\* b without its leading zeros.
BNorm(b) ==
    LET top == CHOOSE k \in 0..Len(b) :
                   /\ k = 0 \/ b[k] = 1
                   /\ \A j \in (k + 1)..Len(b) : b[j] = 0
    IN  SubSeq(b, 1, top)

RECURSIVE BFromNat(_)
BFromNat(n) == IF n = 0 THEN <<>> ELSE <<n % 2>> \o BFromNat(n \div 2)

BBit(b, i) == IF i \in 1..Len(b) THEN b[i] ELSE 0

\* a < b
BLess(a, b) ==
    IF Len(a) # Len(b) THEN Len(a) < Len(b)
    ELSE \E i \in 1..Len(a) : a[i] < b[i] /\ \A j \in (i + 1)..Len(a) : a[j] = b[j]

\* One bit of a + sign * b: st holds the bits so far, the position and the
\* carry (negative: a borrow).
AddStep(a, b, sign, n, st) ==
    IF st.i > n THEN st
    ELSE [out |-> Append(st.out, (BBit(a, st.i) + sign * BBit(b, st.i) + st.c + 2) % 2),
          i |-> st.i + 1,
          c |-> IF BBit(a, st.i) + sign * BBit(b, st.i) + st.c < 0 THEN 0 - 1
                ELSE (BBit(a, st.i) + sign * BBit(b, st.i) + st.c) \div 2]

\* Eight bits at a time.
AddSteps(a, b, sign, n, st) ==
    AddStep(a, b, sign, n, AddStep(a, b, sign, n, AddStep(a, b, sign, n, AddStep(a, b, sign, n,
    AddStep(a, b, sign, n, AddStep(a, b, sign, n, AddStep(a, b, sign, n, AddStep(a, b, sign, n,
    st))))))))

RECURSIVE AddLoop(_, _, _, _, _)
AddLoop(a, b, sign, n, st) ==
    IF st.i > n THEN st.out ELSE AddLoop(a, b, sign, n, AddSteps(a, b, sign, n, st))

BAdd(a, b) ==
    BNorm(AddLoop(a, b, 1, Max(Len(a), Len(b)) + 1, [out |-> <<>>, i |-> 1, c |-> 0]))

\* a - b for b <= a
BSub(a, b) == BNorm(AddLoop(a, b, 0 - 1, Len(a), [out |-> <<>>, i |-> 1, c |-> 0]))

\* a * 2^k and floor(a / 2^k)
BShl(a, k) == IF a = <<>> THEN <<>> ELSE [i \in 1..k |-> 0] \o a

BShr(a, k) == SubSeq(a, k + 1, Len(a))

\* a mod 2^k
BLow(a, k) == BNorm(SubSeq(a, 1, Min(k, Len(a))))

One == <<1>>

\* One bit of the long division of a by b: st holds the quotient bits so far,
\* the remainder and the position in a.
DivStep(a, b, st) ==
    IF st.i = 0 THEN st
    ELSE IF BLess(BNorm(<<a[st.i]>> \o st.r), b)
    THEN [q |-> <<0>> \o st.q, r |-> BNorm(<<a[st.i]>> \o st.r), i |-> st.i - 1]
    ELSE [q |-> <<1>> \o st.q, r |-> BSub(<<a[st.i]>> \o st.r, b), i |-> st.i - 1]

\* Eight bits at a time.
DivSteps(a, b, st) ==
    DivStep(a, b, DivStep(a, b, DivStep(a, b, DivStep(a, b,
    DivStep(a, b, DivStep(a, b, DivStep(a, b, DivStep(a, b, st))))))))

RECURSIVE DivLoop(_, _, _)
DivLoop(a, b, st) ==
    IF st.i = 0 THEN [q |-> BNorm(st.q), r |-> st.r] ELSE DivLoop(a, b, DivSteps(a, b, st))

\* The quotient and the remainder of a by b, b # 0.
BDivMod(a, b) == DivLoop(a, b, [q |-> <<>>, r |-> <<>>, i |-> Len(a)])

\* a * b, by the bits of b (b is short).
RECURSIVE BMulFrom(_, _, _)
BMulFrom(a, b, i) ==
    IF i > Len(b) THEN <<>>
    ELSE IF b[i] = 1 THEN BAdd(BShl(a, i - 1), BMulFrom(a, b, i + 1))
    ELSE BMulFrom(a, b, i + 1)

BMul(a, b) == BMulFrom(a, b, 1)

DigitOf(r) == Digits[1 + BBit(r, 1) + 2 * BBit(r, 2) + 4 * BBit(r, 3) + 8 * BBit(r, 4)]

\* The decimal digits of a natural number, from its quotient and remainder by 10.
RECURSIVE DecimalFrom(_)
DecimalFrom(qr) ==
    IF qr.q = <<>> THEN <<DigitOf(qr.r)>>
    ELSE DecimalFrom(BDivMod(qr.q, BFromNat(10))) \o <<DigitOf(qr.r)>>

BDecimal(a) == DecimalFrom(BDivMod(a, BFromNat(10)))

\* The number of significant bits of a float64.
Float64Bits == 53

\* The width of int and int64.
Int64Bits == 64

\* n / 2^shift rounded to the nearest integer, ties to the even one; sticky says
\* that the exact value lies above n / 2^shift.
RoundShift(n, shift, sticky) ==
    LET q == BShr(n, shift)
        low == BLow(n, shift)
        half == BShl(One, shift - 1)
        up == \/ BLess(half, low)
              \/ (low = half /\ (sticky \/ BBit(q, 1) = 1))
    IN  IF shift = 0 THEN n ELSE IF up THEN BAdd(q, One) ELSE q

\* float64(x) for a non-negative integer x: the nearest value sig * 2^exp with
\* a 53-bit significand.
Float64FromInt(x) ==
    IF Len(x) <= Float64Bits THEN [sig |-> x, exp |-> 0]
    ELSE [sig |-> RoundShift(x, Len(x) - Float64Bits, FALSE), exp |-> Len(x) - Float64Bits]

\* The quotient qr of a.sig * 2^k by b.sig, of more than 53 bits, rounded to 53.
Float64Quotient(a, b, k, qr) ==
    [sig |-> RoundShift(qr.q, Len(qr.q) - Float64Bits, qr.r # <<>>),
     exp |-> a.exp - b.exp - k + Len(qr.q) - Float64Bits]

\* The k that makes the quotient of a.sig * 2^k by b.sig longer than 53 bits.
Float64Scale(a, b) == Max(0, Float64Bits + 2 + Len(b.sig) - Len(a.sig))

\* a / b in float64, b # 0: the exact quotient rounded to 53 bits.
Float64Div(a, b) ==
    IF a.sig = <<>> THEN [sig |-> <<>>, exp |-> 0]
    ELSE Float64Quotient(a, b, Float64Scale(a, b),
                         BDivMod(BShl(a.sig, Float64Scale(a, b)), b.sig))

\* math.Ceil of a non-negative float64, as an integer.
Float64Ceil(f) ==
    IF f.exp >= 0 THEN BShl(f.sig, f.exp)
    ELSE IF BLow(f.sig, 0 - f.exp) = <<>> THEN BShr(f.sig, 0 - f.exp)
    ELSE BAdd(BShr(f.sig, 0 - f.exp), One)

\* A 64-bit pattern read as a signed integer and printed by the %d verb.
Int64Text(pattern) ==
    IF Len(pattern) = Int64Bits
    THEN <<"-">> \o BDecimal(BSub(BShl(One, Int64Bits), pattern))
    ELSE BDecimal(pattern)

\* int64(x) for a non-negative integer-valued float64 x; outOfRange is the bit
\* pattern the build yields when x does not fit.
Int64FromFloat(x, outOfRange) == IF Len(x) < Int64Bits THEN x ELSE outOfRange

\* int64 multiplication: the low 64 bits of the product.
Int64Mul(x, y) == BLow(BMul(x, y), Int64Bits)

secondInMillis == 1000

\* Lines 329-336, for Burst >= 0 and RatePerSec >= 1.
rateLimitExpiryPeriod(conn, outOfRange) ==
    LET burst == Float64FromInt(conn.Burst)
        ratePerSec == Float64FromInt(conn.RatePerSec)
        expiryPeriodInSeconds ==
            Int64FromFloat(Float64Ceil(Float64Div(burst, ratePerSec)), outOfRange)
        expiryPeriodInMillis == Int64Mul(expiryPeriodInSeconds, BFromNat(secondInMillis))
    IN  Int64Text(expiryPeriodInMillis)

(***************************************************************************)
(* netout.go : BulkInsertRules                                             *)
(***************************************************************************)

\* netOutRuleConverter.Convert: a declared egress rule becomes one rule tuple
\* per network it names, each tagged with the log chain and the logging flag.
Convert(rule, logChainName, logging) ==
    [i \in 1..Len(rule.Networks) |->
        Rule("Convert", <<rule.Protocol, rule.Networks[i], logChainName, logging>>)]

\* netOutRuleConverter.BulkConvert: the conversions of the batch, in order.
BulkConvert(netOutRules, logChainName, logging) ==
    Flatten([i \in 1..Len(netOutRules) |-> Convert(netOutRules[i], logChainName, logging)])

\* rules.NewInputRejectRule(denyNetwork)
NewInputRejectRule(denyNetwork) == Rule("NewInputRejectRule", <<denyNetwork>>)

\* rules.NewNetOutConnRateLimitRule(rate, burst, handle, expiryPeriod, jumpTarget)
NewNetOutConnRateLimitRule(rate, burst, containerHandle, expiryPeriod, jumpTarget) ==
    Rule("NewNetOutConnRateLimitRule", <<rate, burst, containerHandle, expiryPeriod, jumpTarget>>)

\* Deny rules that do not look at the workload.
denyNetworksRulesAnyWorkload(nm) ==
    [i \in 1..Len(nm.DenyNetworks.Always) |-> NewInputRejectRule(nm.DenyNetworks.Always[i])]
    \o [i \in 1..Len(nm.DenyNetworks.Running) |-> NewInputRejectRule(nm.DenyNetworks.Running[i])]
    \o [i \in 1..Len(nm.DenyNetworks.Staging) |-> NewInputRejectRule(nm.DenyNetworks.Staging[i])]

\* Lines 290-310.
denyNetworksRules(nm) ==
    [i \in 1..Len(nm.DenyNetworks.Always) |-> NewInputRejectRule(nm.DenyNetworks.Always[i])]
    \o (IF nm.ContainerWorkload = "app" \/ nm.ContainerWorkload = "task"
        THEN [i \in 1..Len(nm.DenyNetworks.Running) |->
                 NewInputRejectRule(nm.DenyNetworks.Running[i])]
        ELSE <<>>)
    \o (IF nm.ContainerWorkload = "staging"
        THEN [i \in 1..Len(nm.DenyNetworks.Staging) |->
                 NewInputRejectRule(nm.DenyNetworks.Staging[i])]
        ELSE <<>>)

\* Lines 312-327.  The jump target is a chain name or the word REJECT.
rateLimitRule(nm, forwardChainName, postfixFails, outOfRange) ==
    IF nm.Conn.Logging /\ postfixFails
    THEN [rule |-> Rule("IPTablesRule", <<>>), err |-> "postfix"]
    ELSE [rule |-> NewNetOutConnRateLimitRule(
                       BDecimal(nm.Conn.RatePerSec) \o <<"/", "s", "e", "c">>,
                       BDecimal(nm.Conn.Burst),
                       nm.ContainerHandle,
                       rateLimitExpiryPeriod(nm.Conn, outOfRange),
                       IF nm.Conn.Logging THEN Postfix(forwardChainName, "rl-log")
                                          ELSE <<"REJECT">>),
          err |-> "nil"]

\* IPTablesAdapter.BulkInsert(table, chain, pos, rulespec...): the rules are
\* put in front of the rule now at position pos, all of them or none.
BulkInsert(ipt, chain, pos, rulespec) ==
    [ipt EXCEPT ![chain] = SubSeq(@, 1, pos - 1) \o rulespec \o SubSeq(@, pos, Len(@))]

\* Lines 113-123: the trailer is appended and the batch is handed to the
\* adapter, which refuses it when adapterFails or when the chain is missing.
\* calls are the adapter calls made.
BulkInsertBatch(nm, ipt, chain, ruleSpec, adapterFails) ==
    LET batch == ruleSpec
                 \o <<Rule("IPTablesRule",
                           <<"-p", "tcp", "-m", "state", "--state", "INVALID", "-j", "DROP">>),
                      Rule("IPTablesRule",
                           <<"-m", "state", "--state", "RELATED,ESTABLISHED", "-j", "ACCEPT">>)>>
        call == [kind |-> "BulkInsert", table |-> "filter", chain |-> chain, pos |-> 1,
                 rules |-> batch]
    IN  IF adapterFails \/ chain \notin DOMAIN ipt
        THEN [m |-> nm, iptables |-> ipt, err |-> "bulk inserting net-out rules",
              calls |-> <<call>>]
        ELSE [m |-> nm, iptables |-> BulkInsert(ipt, chain, 1, batch), err |-> "nil",
              calls |-> <<call>>]

\* Lines 94-124.  postfixFails: the chain namer refuses to build a name;
\* adapterFails: the adapter refuses the insertion.
BulkInsertRules(nm, ipt, netOutRules, postfixFails, adapterFails, outOfRange) ==
    LET chain == Prefix("netout", nm.ContainerHandle)
        logChain == Postfix(chain, "log")
        ruleSpec == BulkConvert(netOutRules, logChain, nm.ASGLogging) \o denyNetworksRules(nm)
        rl == rateLimitRule(nm, chain, postfixFails, outOfRange)
    IN  IF postfixFails
        THEN [m |-> nm, iptables |-> ipt, err |-> "getting chain name", calls |-> <<>>]
        ELSE IF nm.Conn.Limit
        THEN IF rl.err # "nil"
             THEN [m |-> nm, iptables |-> ipt, err |-> "getting chain name", calls |-> <<>>]
             ELSE BulkInsertBatch(nm, ipt, chain, ruleSpec \o <<rl.rule>>, adapterFails)
        ELSE BulkInsertBatch(nm, ipt, chain, ruleSpec, adapterFails)

(***************************************************************************)
(* State                                                                   *)
(***************************************************************************)

VARIABLES
    \* planner: the containers read, the policy server's answer, the flag
    allContainers, policies, egressPolicies, EnableOverlayIngressRules,
    \* planner: the result of the last operation
    plannerOut,
    \* net-out: the NetOut object, the packet-filter adapter's chains, the
    \* outcome of the last operation, the number of operations so far
    m, iptables, outcome, rounds

plannerVars == <<allContainers, policies, egressPolicies, EnableOverlayIngressRules, plannerOut>>

netOutVars == <<m, iptables, outcome, rounds>>

vars == <<allContainers, policies, egressPolicies, EnableOverlayIngressRules, plannerOut,
          m, iptables, outcome, rounds>>

NotRun == [op |-> "none"]

(***************************************************************************)
(* The planner's operations                                                *)
(***************************************************************************)

PlannerIdle ==
    /\ allContainers = <<>>
    /\ policies = <<>>
    /\ egressPolicies = <<>>
    /\ EnableOverlayIngressRules = FALSE
    /\ plannerOut = NotRun

\* A round's inputs: the policy list and the egress-policy list are varied one
\* at a time, the other being empty or a single entry.
PlannerInit ==
    /\ allContainers \in ContainerLists
    /\ \/ /\ policies \in SeqsUpTo(PolicyPool, MaxPolicies)
          /\ egressPolicies \in SeqsUpTo(EgressPool, 0)
       \/ /\ policies \in SeqsUpTo(PolicyPool, 1)
          /\ egressPolicies \in SeqsUpTo(EgressPool, MaxEgressPolicies)
    /\ EnableOverlayIngressRules \in BOOLEAN
    /\ plannerOut = NotRun

\* The tag getContainerPolicies is handed (lines 199-207).
ingressTagFor(enabled) == IF enabled THEN IngressRouterTag ELSE <<>>

\* getContainerPolicies on the policies in the order the server gave them
\* (first) and on the same policies in another order (second).
Resolve ==
    /\ plannerOut = NotRun
    /\ \E f \in Perms(Len(policies)) :
          plannerOut' =
              [op |-> "getContainerPolicies", perm |-> f,
               first |-> getContainerPolicies(policies, egressPolicies,
                                              ingressTagFor(EnableOverlayIngressRules),
                                              allContainers, EnableOverlayIngressRules),
               second |-> getContainerPolicies(Permuted(policies, f), egressPolicies,
                                               ingressTagFor(EnableOverlayIngressRules),
                                               allContainers, EnableOverlayIngressRules)]
    /\ UNCHANGED <<allContainers, policies, egressPolicies, EnableOverlayIngressRules>>
    /\ UNCHANGED netOutVars

\* One convergence round.  The file read and either policy-server call may
\* fail; the logging state is whatever it is at that moment.
PlanRound ==
    /\ plannerOut = NotRun
    /\ \E readFails, policiesFail, tagFail, loggingEnabled \in BOOLEAN :
          plannerOut' =
              [op |-> "GetRulesAndChain",
               result |->
                   GetRulesAndChain([err |-> readFails, containers |-> allContainers],
                                    [policiesFail |-> policiesFail, tagFail |-> tagFail,
                                     policies |-> policies, egressPolicies |-> egressPolicies,
                                     tag |-> IngressRouterTag],
                                    EnableOverlayIngressRules, loggingEnabled,
                                    PlannerHostInterfaceNames, PlannerAcceptedUDPLogsPerSec)]
    /\ UNCHANGED <<allContainers, policies, egressPolicies, EnableOverlayIngressRules>>
    /\ UNCHANGED netOutVars

NetOutIdle ==
    /\ m = [idle |-> TRUE]
    /\ iptables = [idle |-> TRUE]
    /\ outcome = NotRun
    /\ rounds = 0

PlannerNext == Resolve \/ PlanRound

\* A planner round starts from its inputs; no NetOut is in use.
PlannerStart == PlannerInit /\ NetOutIdle

SpecPlanner == PlannerStart /\ [][PlannerNext]_vars

(***************************************************************************)
(* The net-out configurations                                              *)
(***************************************************************************)

\* A valid network whose text is not canonical (it denotes 10.0.0.0/8), a
\* canonical one, and one that does not parse.
Cidr10 == <<"1", "0", ".", "1", ".", "2", ".", "3", "/", "8">>

Cidr192 == <<"1", "9", "2", ".", "1", "6", "8", ".", "0", ".", "0", "/", "1", "6">>

CidrBad == <<"1", "0", ".", "0", ".", "0", ".", "0", "/", "9", "9">>

DenyPool == {Cidr10, Cidr192, CidrBad}

\* Host services: a good one, one without a port, one whose port is no integer.
HostGood == <<"h", ":", "5", "3">>

HostNoPort == <<"h">>

HostBadPort == <<"h", ":", "x">>

DNSPool == {"8.8.8.8"}

MaxDenyNetworks == 2

MaxDNSServers == 1

MaxRounds == 2

BaseNetOut ==
    [ASGLogging |-> FALSE, C2CLogging |-> FALSE, IngressTag |-> "FFFF0000",
     VTEPName |-> "silk-vtep", HostInterfaceNames |-> <<"eth0", "eth1">>,
     DeniedLogsPerSec |-> 2, AcceptedUDPLogsPerSec |-> 3,
     ContainerHandle |-> "handle", ContainerIP |-> "10.255.0.2",
     HostTCPServices |-> <<>>, HostUDPServices |-> <<>>,
     DenyNetworks |-> [Always |-> <<>>, Running |-> <<>>, Staging |-> <<>>],
     DNSServers |-> <<>>, ContainerWorkload |-> "app",
     Conn |-> [Limit |-> FALSE, Logging |-> FALSE, Burst |-> BFromNat(100),
               RatePerSec |-> BFromNat(10), DryRun |-> FALSE]]

\* The Running and Staging lists that go with a varied Always list.
RunningStaging ==
    { [Running |-> <<>>, Staging |-> <<>>],
      [Running |-> <<Cidr10>>, Staging |-> <<CidrBad>>],
      [Running |-> <<Cidr10, CidrBad>>, Staging |-> <<Cidr10>>] }

HostServices ==
    { [tcp |-> <<>>, udp |-> <<>>],
      [tcp |-> <<HostGood>>, udp |-> <<HostGood>>],
      [tcp |-> <<HostGood, HostNoPort>>, udp |-> <<>>],
      [tcp |-> <<HostGood>>, udp |-> <<HostBadPort>>] }

GoodHostServices == {h \in HostServices : h.tcp \in {<<>>, <<HostGood>>} /\ h.udp \in {<<>>, <<HostGood>>}}

\* Configurations that vary what Initialize validates.
ValidationConfigs ==
    { [BaseNetOut EXCEPT !.DenyNetworks = [Always |-> al, Running |-> rs.Running,
                                           Staging |-> rs.Staging],
                         !.HostTCPServices = h.tcp, !.HostUDPServices = h.udp] :
        al \in SeqsUpTo(DenyPool, MaxDenyNetworks), rs \in RunningStaging,
        h \in {x \in HostServices : x.tcp = x.udp \/ x.udp = <<HostBadPort>>} }
    \cup
    { [BaseNetOut EXCEPT !.HostTCPServices = h.tcp, !.HostUDPServices = h.udp] :
        h \in HostServices }

\* Configurations that vary what the chain tree is built from.
TreeConfigs ==
    { [BaseNetOut EXCEPT !.ASGLogging = asg, !.C2CLogging = c2c,
                         !.Conn.Limit = limit, !.Conn.Logging = logging,
                         !.Conn.DryRun = dry, !.DNSServers = dns,
                         !.HostTCPServices = h.tcp, !.HostUDPServices = h.udp] :
        asg \in BOOLEAN, c2c \in BOOLEAN, limit \in BOOLEAN, logging \in BOOLEAN,
        dry \in BOOLEAN, dns \in SeqsUpTo(DNSPool, MaxDNSServers), h \in GoodHostServices }

(***************************************************************************)
(* The net-out operations                                                  *)
(***************************************************************************)

NetOutInit ==
    /\ m \in ValidationConfigs \cup TreeConfigs
    /\ iptables = EmptyTables
    /\ outcome = NotRun
    /\ rounds = 0

\* What the next operation's outcome records of the state it started from.
Before == [iptables |-> iptables, DenyNetworks |-> m.DenyNetworks]

\* One call of Initialize.  The chain namer may refuse; if it does not, any one
\* adapter call may fail.
InitializeCall ==
    /\ rounds < MaxRounds
    /\ \E postfixFails \in BOOLEAN, failAt \in 0..AdapterCallCount(m) :
          /\ postfixFails => failAt = 0
          /\ \E r \in {Initialize(m, iptables, postfixFails, failAt)} :
                 /\ m' = r.m
                 /\ iptables' = r.iptables
                 /\ outcome' = [op |-> "Initialize", err |-> r.err, creates |-> r.creates,
                                applies |-> r.applies, args |-> r.args, before |-> Before]
    /\ rounds' = rounds + 1
    /\ UNCHANGED plannerVars

\* One call of Cleanup.
CleanupCall ==
    /\ rounds < MaxRounds
    /\ \E postfixFails \in BOOLEAN, adapterFails \in BOOLEAN :
          /\ postfixFails => ~adapterFails
          /\ \E r \in {Cleanup(m, iptables, postfixFails, adapterFails)} :
                 /\ m' = r.m
                 /\ iptables' = r.iptables
                 /\ outcome' = [op |-> "Cleanup", err |-> r.err, creates |-> r.creates,
                                applies |-> r.applies, args |-> r.args, before |-> Before]
    /\ rounds' = rounds + 1
    /\ UNCHANGED plannerVars

NetOutNext == InitializeCall \/ CleanupCall

\* A NetOut as configured, before any operation; no planner is in use.
NetOutStart == NetOutInit /\ PlannerIdle

SpecNetOut == NetOutStart /\ [][NetOutNext]_vars

(***************************************************************************)
(* The rate-limit window                                                   *)
(***************************************************************************)

MaxSmallBurst == 12

MaxSmallRate == 8

Two53 == BShl(One, Float64Bits)

\* Bursts from 0 up, the two of the documentation, and bursts that need more
\* than 53 bits, the largest int among them.
BurstPool ==
    {BFromNat(n) : n \in 0..MaxSmallBurst} \cup {BFromNat(100), BFromNat(101)}
    \cup {Two53, BAdd(Two53, One), BAdd(Two53, BFromNat(3)),
          BAdd(BMul(Two53, BFromNat(3)), BFromNat(2)), BShl(One, 60),
          BSub(BShl(One, Int64Bits - 1), One)}

RatePool == {BFromNat(n) : n \in 1..MaxSmallRate} \cup {BFromNat(10), Two53}

\* What a float64 too large for int64 converts to: the smallest int64 (amd64)
\* or the largest (arm64).
OutOfRangePatterns == {BShl(One, Int64Bits - 1), BSub(BShl(One, Int64Bits - 1), One)}

RateInit ==
    /\ \E b \in BurstPool, r \in RatePool :
          m = [BaseNetOut EXCEPT !.Conn.Limit = TRUE, !.Conn.Burst = b, !.Conn.RatePerSec = r]
    /\ iptables = EmptyTables
    /\ outcome = NotRun
    /\ rounds = 0

\* One call of rateLimitExpiryPeriod.
ExpiryCall ==
    /\ outcome = NotRun
    /\ \E outOfRange \in OutOfRangePatterns :
          outcome' = [op |-> "rateLimitExpiryPeriod",
                      expiry |-> rateLimitExpiryPeriod(m.Conn, outOfRange)]
    /\ UNCHANGED <<m, iptables, rounds>>
    /\ UNCHANGED plannerVars

RateNext == ExpiryCall

RateStart == RateInit /\ PlannerIdle

SpecRate == RateStart /\ [][RateNext]_vars

(***************************************************************************)
(* Bulk insertion of the declared egress rules                             *)
(***************************************************************************)

Workloads == {"app", "task", "staging", "other"}

\* Deny lists for the three lifecycle stages: none, lists with an entry that
\* Initialize rewrites, and lists with an entry that it refuses.
BulkDenyNetworks ==
    { [Always |-> <<>>, Running |-> <<>>, Staging |-> <<>>],
      [Always |-> <<Cidr192>>, Running |-> <<Cidr10>>, Staging |-> <<Cidr192, Cidr10>>],
      [Always |-> <<Cidr192, Cidr10>>, Running |-> <<Cidr192>>, Staging |-> <<CidrBad>>] }

\* Configurations that vary what BulkInsertRules reads.
BulkConfigs ==
    { [BaseNetOut EXCEPT !.DenyNetworks = deny, !.ContainerWorkload = w,
                         !.ASGLogging = asg,
                         !.Conn.Limit = limit, !.Conn.Logging = logging] :
        deny \in BulkDenyNetworks, w \in Workloads, asg \in BOOLEAN,
        limit \in BOOLEAN, logging \in BOOLEAN }

\* Batches of declared egress rules: none, and two rules of which the first
\* names two networks and the second none.
DeclaredBatches ==
    { <<>>,
      <<[Protocol |-> "tcp", Networks |-> <<"1.1.1.1", "9.9.9.9">>],
        [Protocol |-> "all", Networks |-> <<>>]>> }

BulkInit ==
    /\ m \in BulkConfigs
    /\ iptables = EmptyTables
    /\ outcome = NotRun
    /\ rounds = 0

\* One call of BulkInsertRules.
BulkInsertRulesCall ==
    /\ rounds < MaxRounds
    /\ \E netOutRules \in DeclaredBatches, postfixFails \in BOOLEAN, adapterFails \in BOOLEAN,
          outOfRange \in OutOfRangePatterns :
          /\ postfixFails => ~adapterFails
          /\ \E r \in {BulkInsertRules(m, iptables, netOutRules, postfixFails, adapterFails,
                                       outOfRange)} :
                 /\ m' = r.m
                 /\ iptables' = r.iptables
                 /\ outcome' = [op |-> "BulkInsertRules", err |-> r.err, calls |-> r.calls,
                                netOutRules |-> netOutRules, before |-> Before]
    /\ rounds' = rounds + 1
    /\ UNCHANGED plannerVars

\* Initialize as the container's first operation.
InitializeFirst == outcome = NotRun /\ InitializeCall

BulkNext == InitializeFirst \/ BulkInsertRulesCall

BulkStart == BulkInit /\ PlannerIdle

SpecBulkInsert == BulkStart /\ [][BulkNext]_vars

(***************************************************************************)
(* Properties of the planner                                               *)
(***************************************************************************)

Resolved == plannerOut.op = "getContainerPolicies"

ResolvedOK == Resolved /\ plannerOut.first.err = "nil"

SameSequences(a, b) ==
    /\ a.Source = b.Source
    /\ a.Destination = b.Destination
    /\ a.Egress = b.Egress
    /\ a.Ingress = b.Ingress

\* Policies naming the same source carry the same tag.
TagConsistent(ps) ==
    \A i, j \in 1..Len(ps) :
        ps[i].Source.ID = ps[j].Source.ID => ps[i].Source.Tag = ps[j].Source.Tag

\* C1 as stated: whenever getContainerPolicies returns without error on a
\* policy list and on a permutation of it, the four returned sequences are the
\* same, the Tag and GUID of every SourceMark included.
C1_PermutationInvariant ==
    (ResolvedOK /\ plannerOut.second.err = "nil")
        => SameSequences(plannerOut.first, plannerOut.second)

\* C1 amended: the same, for policy lists in which the policies that share a
\* Source.ID also share the Source.Tag; the permuted run then returns without
\* error too.
C1_PermutationInvariantSameTags ==
    (ResolvedOK /\ TagConsistent(policies))
        => /\ plannerOut.second.err = "nil"
           /\ SameSequences(plannerOut.first, plannerOut.second)

\* C1 witness: a genuinely reordered, tag-consistent policy list that yields a
\* source mark and two destination tuples.
C1_Witness ==
    /\ ResolvedOK
    /\ TagConsistent(policies)
    /\ Permuted(policies, plannerOut.perm) # policies
    /\ Len(plannerOut.first.Source) >= 1
    /\ Len(plannerOut.first.Destination) >= 2

\* The IPs of the containers that some policy names as source.
SourceIPs ==
    {allContainers[k].IP : k \in {k \in 1..Len(allContainers) :
        \E p \in 1..Len(policies) : allContainers[k].AppID = policies[p].Source.ID}}

\* C2: in the Source sequence returned, no two marks share an IP, and an IP
\* occurs exactly when a container with that IP is named as source by a policy.
C2_OneSourceMarkPerIP ==
    ResolvedOK =>
        LET src == plannerOut.first.Source
        IN  /\ \A i, j \in 1..Len(src) : src[i].IP = src[j].IP => i = j
            /\ {src[i].IP : i \in 1..Len(src)} = SourceIPs

\* C2 witness: two policies name the same container as source, and exactly
\* one mark carries its IP.
C2_Witness ==
    /\ ResolvedOK
    /\ \E k \in 1..Len(allContainers) :
          /\ Cardinality({p \in 1..Len(policies) :
                 policies[p].Source.ID = allContainers[k].AppID}) >= 2
          /\ Cardinality({i \in 1..Len(plannerOut.first.Source) :
                 plannerOut.first.Source[i].IP = allContainers[k].IP}) = 1

\* The egress tuple of a (container, egress policy) pair.
EgressTuple(c, e) ==
    [SourceIP |-> c.IP,
     Protocol |-> e.Destination.Protocol,
     IpStart |-> e.Destination.IPRanges[1].Start,
     IpEnd |-> e.Destination.IPRanges[1].End,
     IcmpType |-> e.Destination.ICMPType,
     IcmpCode |-> e.Destination.ICMPCode,
     PortStart |-> IF Len(e.Destination.Ports) > 0 THEN e.Destination.Ports[1].Start ELSE 0,
     PortEnd |-> IF Len(e.Destination.Ports) > 0 THEN e.Destination.Ports[1].End ELSE 0]

\* An EgressRule was emitted for the pair.  The pairs looked at are those whose
\* container is the only one with its IP, so the tuple identifies the pair.
EgressEmitted(c, e) ==
    /\ Len(e.Destination.IPRanges) > 0
    /\ \E i \in 1..Len(plannerOut.first.Egress) : plannerOut.first.Egress[i] = EgressTuple(c, e)

EgressPairs ==
    {<<k, j>> \in (1..Len(allContainers)) \X (1..Len(egressPolicies)) :
        \A l \in 1..Len(allContainers) :
            allContainers[l].IP = allContainers[k].IP => allContainers[l] = allContainers[k]}

\* C6 as stated: a rule is emitted for a "space" policy only when its Source.ID
\* is the container's SpaceID, and for a policy that is neither "space" nor
\* "default" only when its Source.ID is the container's AppID.
C6_EgressScope ==
    ResolvedOK =>
        \A pr \in EgressPairs :
            LET c == allContainers[pr[1]]
                e == egressPolicies[pr[2]]
            IN  EgressEmitted(c, e) =>
                    /\ e.Source.Type = "space" => e.Source.ID = c.SpaceID
                    /\ e.Source.Type \notin {"space", "default"} => e.Source.ID = c.AppID

\* C6 amended: for a "space" policy only when its Source.ID is the container's
\* SpaceID or the container's AppID; the second half as stated.
C6_EgressScopeSpaceOrApp ==
    ResolvedOK =>
        \A pr \in EgressPairs :
            LET c == allContainers[pr[1]]
                e == egressPolicies[pr[2]]
            IN  EgressEmitted(c, e) =>
                    /\ e.Source.Type = "space" =>
                           (e.Source.ID = c.SpaceID \/ e.Source.ID = c.AppID)
                    /\ e.Source.Type \notin {"space", "default"} => e.Source.ID = c.AppID

\* C6 witness: a "space" policy emits for the container of that space, and an
\* app policy whose id is only the container's space id emits nothing.
C6_Witness ==
    /\ ResolvedOK
    /\ \E pr \in EgressPairs :
          LET c == allContainers[pr[1]]
              e == egressPolicies[pr[2]]
          IN  \/ /\ e.Source.Type = "space"
                 /\ e.Source.ID = c.SpaceID
                 /\ e.Source.ID # c.AppID
                 /\ EgressEmitted(c, e)
              \/ /\ e.Source.Type = "app"
                 /\ e.Source.ID = c.SpaceID
                 /\ e.Source.ID # c.AppID
                 /\ ~EgressEmitted(c, e)

\* A piece of a port list that is a decimal integer, blanks around it aside.
IsIntegerText(s) ==
    LET t == TrimSpace(s)
        body == IF t # <<>> /\ t[1] \in {"+", "-"} THEN Tail(t) ELSE t
    IN  body # <<>> /\ \A i \in 1..Len(body) : IsDigit(body[i])

\* Some container read this round has a port entry that is not an integer.
SomeBadPort ==
    \E k \in 1..Len(allContainers) :
        /\ allContainers[k].Ports # <<>>
        /\ \E piece \in {Split(allContainers[k].Ports, ",")[i] :
                          i \in 1..Len(Split(allContainers[k].Ports, ","))} :
              ~IsIntegerText(piece)

Planned == plannerOut.op = "GetRulesAndChain"

C10_OnlyPortErrors ==
    Resolved =>
        /\ plannerOut.first.err # "panic"
        /\ plannerOut.first.err # "nil" => (EnableOverlayIngressRules /\ SomeBadPort)

(***************************************************************************)
(* Properties of Initialize                                                *)
(***************************************************************************)

Initialized == outcome.op = "Initialize"

\* Initialize failed on what it validates: the deny networks or the host services.
ValidationFailed == Initialized /\ outcome.err \in {"deny networks", "input rules"}

\* Initialize failed in the adapter.
AdapterFailed == Initialized /\ outcome.err \in {"creating chain", "applying rules"}

\* C3: when Initialize fails on input validation (a deny-network entry that is
\* no CIDR, a host service that is no host:port with an integer port), the
\* adapter has received no chain-create and no rule-apply call from that
\* Initialize, and no chain has been created or modified.
C3_NoAdapterCallOnInvalidInput ==
    ValidationFailed =>
        /\ outcome.creates = 0
        /\ outcome.applies = 0
        /\ iptables = outcome.before.iptables

\* C3 witness: an Initialize has failed on a host service, the deny networks
\* before it having passed.
C3_Witness ==
    /\ ValidationFailed
    /\ outcome.err = "input rules"
    /\ m.DenyNetworks.Always # <<>>

CallsOf(args) == initChains(args) \o applyRules(args)

TerminalRules ==
    {"NewInputDefaultRejectRule", "NewNetOutDefaultRejectRule",
     "NewOverlayDefaultRejectRule", "NewAcceptRule"}

LoggingRules ==
    {"NewNetOutDefaultRejectLogRule", "NewOverlayDefaultRejectLogRule",
     "NewNetOutConnRateLimitRejectLogRule", "NewNetOutDefaultNonUDPLogRule",
     "NewNetOutDefaultUDPLogRule"}

IsTerminal(r) == r.fn \in TerminalRules

IsLogging(r) == r.fn \in LoggingRules

\* The body ends with a terminal rule and holds no other.
OneTerminalLast(body) ==
    /\ body # <<>>
    /\ \A i \in 1..Len(body) : IsTerminal(body[i]) <=> i = Len(body)

\* Every logging rule is followed by logging rules only, up to the terminal rule.
LoggingJustBeforeTerminal(body) ==
    \A i \in 1..Len(body) :
        IsLogging(body[i]) => /\ i < Len(body)
                              /\ \A j \in i..(Len(body) - 1) : IsLogging(body[j])

\* The rules of a body that the logging switches add.
IsSwitchedLogging(r) ==
    r.fn \in {"NewNetOutDefaultRejectLogRule", "NewOverlayDefaultRejectLogRule",
              "NewNetOutConnRateLimitRejectLogRule"}

\* The tree the same NetOut builds with every logging switch off.
QuietTree ==
    Initialize([m EXCEPT !.ASGLogging = FALSE, !.C2CLogging = FALSE, !.Conn.Logging = FALSE],
               EmptyTables, FALSE, 0).args

\* The body without the rules the logging switches add is the body built with
\* the switches off.
EarlierRulesInOrder(i) ==
    SelectSeq(outcome.args[i].Rules, LAMBDA r : ~IsSwitchedLogging(r)) = QuietTree[i].Rules

TreeBuilt == Initialized /\ outcome.args # <<>>

IsDryRunLogChain(c) ==
    m.Conn.DryRun /\ c.ChainName = Postfix(Prefix("netout", m.ContainerHandle), "rl-log")

\* C7, as stated: in every configuration the body of every chain of the tree
\* built by Initialize ends with exactly one terminal accept or reject rule,
\* with every logging rule immediately before it and the earlier rules in
\* their original order.
C7_EveryChainEndsTerminal ==
    TreeBuilt =>
        \A i \in 1..Len(outcome.args) :
            /\ OneTerminalLast(outcome.args[i].Rules)
            /\ LoggingJustBeforeTerminal(outcome.args[i].Rules)
            /\ EarlierRulesInOrder(i)

\* C7, amended: that holds of every chain but the rate-limit log chain of a
\* dry-run configuration, whose body has no terminal rule: it is the
\* rate-limit reject-log rule when rate-limit logging is on and empty when it
\* is off.
C7_EveryChainButDryRunLogEndsTerminal ==
    TreeBuilt =>
        \A i \in 1..Len(outcome.args) :
            IF IsDryRunLogChain(outcome.args[i])
            THEN /\ \A k \in 1..Len(outcome.args[i].Rules) : ~IsTerminal(outcome.args[i].Rules[k])
                 /\ Len(outcome.args[i].Rules) = (IF m.Conn.Logging THEN 1 ELSE 0)
                 /\ \A k \in 1..Len(outcome.args[i].Rules) :
                       outcome.args[i].Rules[k].fn = "NewNetOutConnRateLimitRejectLogRule"
            ELSE /\ OneTerminalLast(outcome.args[i].Rules)
                 /\ LoggingJustBeforeTerminal(outcome.args[i].Rules)
                 /\ EarlierRulesInOrder(i)

\* C7 witness: a tree built with every switch on, dry-run included, and DNS
\* servers and host services to allow.
C7_Witness ==
    /\ TreeBuilt
    /\ m.ASGLogging /\ m.C2CLogging /\ m.Conn.Limit /\ m.Conn.Logging /\ m.Conn.DryRun
    /\ m.DNSServers # <<>> /\ m.HostTCPServices # <<>>
    /\ Len(outcome.args) = 5

(***************************************************************************)
(* Properties of the deny-network validation                               *)
(***************************************************************************)

DenyFailed == Initialized /\ outcome.err = "deny networks"

\* C9, as stated: when the validation fails, the three lists hold exactly the
\* entries they held before the call.
C9_NoSideEffectOnFailure ==
    DenyFailed => m.DenyNetworks = outcome.before.DenyNetworks

AllEntries(deny) == deny.Always \o deny.Running \o deny.Staging

\* C9, amended: when the validation fails, the lists keep their lengths, the
\* entries before the first unparsable one (in the order Always, Running,
\* Staging) hold their canonical form, and the unparsable one and every entry
\* after it are as they were.
C9_EntriesBeforeFailureCanonical ==
    DenyFailed =>
        LET old == AllEntries(outcome.before.DenyNetworks)
            new == AllEntries(m.DenyNetworks)
            bad == {i \in 1..Len(old) : ~ParseCIDR(old[i]).ok}
        IN  /\ Len(m.DenyNetworks.Always) = Len(outcome.before.DenyNetworks.Always)
            /\ Len(m.DenyNetworks.Running) = Len(outcome.before.DenyNetworks.Running)
            /\ Len(m.DenyNetworks.Staging) = Len(outcome.before.DenyNetworks.Staging)
            /\ bad # {}
            /\ \A i \in 1..Len(old) :
                  new[i] = IF \A j \in bad : i < j THEN ParseCIDR(old[i]).text ELSE old[i]

\* C9 witness: the validation has failed behind an entry whose text was not
\* canonical, and that entry has been rewritten.
C9_Witness ==
    /\ DenyFailed
    /\ outcome.before.DenyNetworks.Always # <<>>
    /\ outcome.before.DenyNetworks.Always[1] = Cidr10
    /\ m.DenyNetworks.Always[1] # Cidr10

(***************************************************************************)
(* Properties of the rate-limit window                                     *)
(***************************************************************************)

\* The decimal text of ceil(Burst / RatePerSec) * 1000 in exact integer arithmetic.
CeilingWindowText(conn) ==
    LET qr == BDivMod(conn.Burst, conn.RatePerSec)
    IN  BDecimal(BMul(IF qr.r = <<>> THEN qr.q ELSE BAdd(qr.q, One), BFromNat(1000)))

\* C5: for every burst B >= 0 and rate R >= 1 the result is the decimal text of
\* ceil(B / R) * 1000, so that the window times R is at least B * 1000.
C5_WindowIsCeiling ==
    outcome.op = "rateLimitExpiryPeriod" =>
        outcome.expiry = CeilingWindowText(m.Conn)

(***************************************************************************)
(* Properties of BulkInsertRules                                           *)
(***************************************************************************)

\* BulkInsertRules has run and the chain namer gave it its names.
BulkInserted == outcome.op = "BulkInsertRules" /\ outcome.err # "getting chain name"

NetOutChainName == Prefix("netout", m.ContainerHandle)

\* The name of the rate-limit log chain in the tree Initialize builds from the
\* configuration nm (the last chain, when rate limiting is enabled).
RateLimitLogChainName(nm) ==
    LET args == defaultNetOutRules(nm, FALSE).args IN args[Len(args)].ChainName

RejectsOf(entries) == [i \in 1..Len(entries) |-> NewInputRejectRule(entries[i])]

\* The deny rules the configuration calls for, in the order of the lists.
DeniedBatch ==
    RejectsOf(m.DenyNetworks.Always)
    \o (IF m.ContainerWorkload \in {"app", "task"} THEN RejectsOf(m.DenyNetworks.Running) ELSE <<>>)
    \o (IF m.ContainerWorkload = "staging" THEN RejectsOf(m.DenyNetworks.Staging) ELSE <<>>)

ConvertedBatch == BulkConvert(outcome.netOutRules, Postfix(NetOutChainName, "log"), m.ASGLogging)

TrailerRules ==
    <<Rule("IPTablesRule", <<"-p", "tcp", "-m", "state", "--state", "INVALID", "-j", "DROP">>),
      Rule("IPTablesRule", <<"-m", "state", "--state", "RELATED,ESTABLISHED", "-j", "ACCEPT">>)>>

\* The part of a batch between the deny rules and the trailer.
RateLimitPart(batch) ==
    SubSeq(batch, Len(ConvertedBatch) + Len(DeniedBatch) + 1, Len(batch) - Len(TrailerRules))

\* C11: BulkInsertRules makes exactly one adapter call, a bulk insert at
\* position 1 of the container's net-out chain, whose batch is, in this order:
\* the converted declared rules; a reject rule per Always entry; one per Running
\* entry only for workload app or task; one per Staging entry only for workload
\* staging; a rate-limit rule only when rate limiting is enabled, jumping to
\* REJECT, or with rate-limit logging to the rate-limit log chain that
\* Initialize creates; and the two trailer rules.
C11_BulkInsertBatch ==
    BulkInserted =>
        /\ Len(outcome.calls) = 1
        /\ outcome.calls[1].kind = "BulkInsert"
        /\ outcome.calls[1].table = "filter"
        /\ outcome.calls[1].chain = NetOutChainName
        /\ outcome.calls[1].pos = 1
        /\ LET batch == outcome.calls[1].rules
               fixed == Len(ConvertedBatch) + Len(DeniedBatch)
           IN  /\ Len(batch) = fixed + (IF m.Conn.Limit THEN 1 ELSE 0) + Len(TrailerRules)
               /\ SubSeq(batch, 1, Len(ConvertedBatch)) = ConvertedBatch
               /\ SubSeq(batch, Len(ConvertedBatch) + 1, fixed) = DeniedBatch
               /\ \A i \in 1..Len(RateLimitPart(batch)) :
                      /\ RateLimitPart(batch)[i].fn = "NewNetOutConnRateLimitRule"
                      /\ RateLimitPart(batch)[i].args[5] =
                             IF m.Conn.Logging THEN RateLimitLogChainName(m) ELSE <<"REJECT">>
               /\ SubSeq(batch, Len(batch) - Len(TrailerRules) + 1, Len(batch)) = TrailerRules

\* An accepted batch for a staging workload with every part present, put in
\* front of the rules of Initialize, its rate-limit rule jumping to a chain
\* that exists.
C11_Witness ==
    /\ BulkInserted
    /\ outcome.err = "nil"
    /\ outcome.netOutRules # <<>>
    /\ m.ContainerWorkload = "staging"
    /\ m.DenyNetworks.Always # <<>>
    /\ m.DenyNetworks.Running # <<>>
    /\ m.DenyNetworks.Staging # <<>>
    /\ m.Conn.Limit
    /\ m.Conn.Logging
    /\ RateLimitLogChainName(m) \in DOMAIN iptables
    /\ outcome.before.iptables[NetOutChainName] # <<>>

============================================================================
